---- MODULE Spec2Model ----
(***************************************************************************)
(* Model of testbox.ino: a Wemos D1 mini firmware that drives three LEDs   *)
(* and a servo, polls a DHT22 sensor, runs a timed self test and answers   *)
(* a line-oriented serial protocol (<Verb> <Noun> <Value>).                *)
(*                                                                         *)
(* Bytes are one-character strings; a line, the parser's buffer and a      *)
(* token are sequences of bytes.  millis() is the variable now; all the    *)
(* millis() calls of one pass of loop() read the same value and the time   *)
(* a pass takes is added at its end.                                       *)
(***************************************************************************)
EXTENDS Integers, Sequences, FiniteSets, TLC

VARIABLES state, self_tester, parser, request, now, rx, wire, pins, out,
          booted, tick, hist, call

vars == <<state, self_tester, parser, request, now, rx, wire, pins, out,
          booted, tick, hist, call>>

----------------------------------------------------------------------------
(* Bounds of the model *)

\* millis() never exceeds this value in the model
MaxTime == 1800

\* millis() never exceeds this value in the runs that follow a whole self test
MaxRunTime == 3600

\* millis() never exceeds this value in the runs that poll the sensor twice
MaxSensorTime == 5000

\* the host sends no line after this time ...
MaxSendTime == 3000

\* ... and loop() is called until this time, long enough after it for a
\* self test started last to finish
MaxLiveTime == 13000

\* a line may reach the UART in two pieces, the first of this many bytes
CutAt == 6

----------------------------------------------------------------------------
(* Program constants *)

LONG_MAX == 2147483647       \* long and int are 32 bits on the ESP8266
LONG_MIN == (-2147483647) - 1

LED_MIN == 0
LED_MAX == 1023
LED_DEF == 0
SERVO_MIN == 0
SERVO_MAX == 180
SERVO_DEF == 90

MAX_LEN == 256
refresh_delay == 20
WAIT_MS == 500
DHT_MIN_SAMPLING_PERIOD == 2000

ARDUINO_BOARD == "ESP8266_WEMOS_D1MINI"

NULL == <<>>

----------------------------------------------------------------------------
(* unsigned long: 32 bits, kept as two 16-bit halves so that a difference  *)
(* that wraps below zero is the value the hardware computes                *)

HALF == 65536

ToU(n) == [hi |-> n \div HALF, lo |-> n % HALF]

FromU(u) == u.hi * HALF + u.lo

UAdd(a, b) ==
  LET lo == a.lo + b.lo
  IN [hi |-> (a.hi + b.hi + (lo \div HALF)) % HALF, lo |-> lo % HALF]

USub(a, b) ==
  LET lo == a.lo - b.lo
  IN [hi |-> (a.hi - b.hi - (IF lo < 0 THEN 1 ELSE 0)) % HALF, lo |-> lo % HALF]

ULess(a, b) == a.hi < b.hi \/ (a.hi = b.hi /\ a.lo < b.lo)

----------------------------------------------------------------------------
(* ClampedInt *)

\* clamped with the test against MAX_V left out
clamped_unbounded_above(val, MIN_V, MAX_V) ==
  IF val < MIN_V THEN MIN_V ELSE val

clamped(val, MIN_V, MAX_V) ==
  IF val > MAX_V THEN MAX_V ELSE (IF val < MIN_V THEN MIN_V ELSE val)

LedValue(val) == clamped(val, LED_MIN, LED_MAX)
ServoValue(val) == clamped(val, SERVO_MIN, SERVO_MAX)

----------------------------------------------------------------------------
(* State: actuator values, sensor snapshot, and the driver pins *)

TempSensorValue ==
  [timestamp |-> 0, status |-> "", temperature |-> 0, humidity |-> 0]

TestBoxState ==
  [red |-> LED_DEF, yellow |-> LED_DEF, green |-> LED_DEF,
   servo |-> SERVO_DEF, sensor |-> TempSensorValue]

\* State::write with the yellow and green outputs exchanged
write_crossed(s) ==
  [red |-> s.red, yellow |-> s.green, green |-> s.yellow, servo |-> s.servo]

\* State::write: what the four driver outputs hold afterwards
write(s) ==
  [red |-> s.red, yellow |-> s.yellow, green |-> s.green, servo |-> s.servo]

\* What the DHT driver can report on one poll: status string and the two
\* readings in hundredths (Serial.print(float) prints two decimals)
DhtReports ==
  { [status |-> "OK",       temperature |-> 2990, humidity |-> 5520],
    [status |-> "CHECKSUM", temperature |-> 2990, humidity |-> 5520],
    [status |-> "TIMEOUT",  temperature |-> 0,    humidity |-> 0] }

\* the test State::read makes before it asks the driver
sampling_due(s, t) ==
  ~ULess(USub(ToU(t), ToU(s.sensor.timestamp)), ToU(DHT_MIN_SAMPLING_PERIOD))

\* State::read keeping the readings of the driver whatever the status
read_keeps_readings(s, t, dht) ==
  IF ~sampling_due(s, t)
  THEN s
  ELSE [s EXCEPT !.sensor =
          [timestamp   |-> t,
           status      |-> dht.status,
           temperature |-> dht.temperature,
           humidity    |-> dht.humidity]]

\* State::read
read(s, t, dht) ==
  IF ~sampling_due(s, t)
  THEN s
  ELSE [s EXCEPT !.sensor =
          [timestamp   |-> t,
           status      |-> dht.status,
           temperature |-> IF dht.status = "OK" THEN dht.temperature ELSE 0,
           humidity    |-> IF dht.status = "OK" THEN dht.humidity ELSE 0]]

----------------------------------------------------------------------------
(* SelfTester *)

Target(r, y, g, s, w) ==
  [red |-> r, yellow |-> y, green |-> g, servo |-> s, wait_ms |-> w]

\* targets_ with the second step's red left at its minimum
targets_dim ==
  << Target(LED_DEF, LED_DEF, LED_DEF, SERVO_DEF, WAIT_MS),
     Target(LED_MIN, LED_MIN, LED_MIN, SERVO_MIN, WAIT_MS),
     Target(LED_MIN, LED_MAX, LED_MIN, SERVO_DEF, WAIT_MS),
     Target(LED_MIN, LED_MIN, LED_MAX, SERVO_MAX, WAIT_MS),
     Target(LED_DEF, LED_DEF, LED_DEF, SERVO_DEF, WAIT_MS) >>

targets_ ==
  << Target(LED_DEF, LED_DEF, LED_DEF, SERVO_DEF, WAIT_MS),
     Target(LED_MAX, LED_MIN, LED_MIN, SERVO_MIN, WAIT_MS),
     Target(LED_MIN, LED_MAX, LED_MIN, SERVO_DEF, WAIT_MS),
     Target(LED_MIN, LED_MIN, LED_MAX, SERVO_MAX, WAIT_MS),
     Target(LED_DEF, LED_DEF, LED_DEF, SERVO_DEF, WAIT_MS) >>

SelfTester ==
  [active_ |-> FALSE, step_ |-> 0, next_step_timestamp_ |-> 0]

is_active(st) == st.active_

\* progress without the test of active_
progress_when_stopped(st) ==
  IF Len(targets_) = 0 THEN 0 ELSE (100 * st.step_) \div Len(targets_)

progress(st) ==
  IF ~st.active_ \/ Len(targets_) = 0
  THEN 0
  ELSE (100 * st.step_) \div Len(targets_)

\* start without the early return: it restarts a running self test
start_again(st, t) ==
  [active_ |-> TRUE, step_ |-> 0, next_step_timestamp_ |-> t]

start(st, t) ==
  IF st.active_
  THEN st
  ELSE [active_ |-> TRUE, step_ |-> 0, next_step_timestamp_ |-> t]

\* stop without the early return, rewinding the sequence
stop_rewinds(st) == [st EXCEPT !.active_ = FALSE, !.step_ = 0]

\* stop that leaves the sequencer running
stop_ignored(st) == st

stop(st) ==
  IF ~st.active_ THEN st ELSE [st EXCEPT !.active_ = FALSE]

\* SelfTester::step: the tester and state afterwards, whether a step was
\* taken (the return value) and which target was applied
step(st, s, t) ==
  IF ~st.active_
  THEN [tester |-> st, state |-> s, ret |-> FALSE]
  ELSE IF st.step_ >= Len(targets_)
  THEN [tester |-> stop(st), state |-> s, ret |-> FALSE]
  ELSE IF ULess(ToU(t), ToU(st.next_step_timestamp_))
  THEN [tester |-> st, state |-> s, ret |-> FALSE]
  ELSE
    LET overshoot == USub(ToU(st.next_step_timestamp_), ToU(t))
        target    == targets_[st.step_ + 1]
    IN [tester |-> [st EXCEPT
                      !.next_step_timestamp_ =
                          FromU(USub(UAdd(ToU(t), ToU(target.wait_ms)),
                                     overshoot)),
                      !.step_ = st.step_ + 1],
        state  |-> [s EXCEPT !.red    = LedValue(target.red),
                             !.yellow = LedValue(target.yellow),
                             !.green  = LedValue(target.green),
                             !.servo  = ServoValue(target.servo)],
        ret    |-> TRUE]

----------------------------------------------------------------------------
(* Request *)

Request ==
  [status |-> "STATUS_OK", verb |-> "VERB_EMPTY", noun |-> "NOUN_EMPTY",
   value |-> "VALUE_EMPTY", value_int |-> 0]

----------------------------------------------------------------------------
(* Keywords, as the byte strings the maps of parse_into are keyed by *)

KW_ID           == <<"I","D">>
KW_GET          == <<"G","E","T">>
KW_SET          == <<"S","E","T">>
KW_RED_LED      == <<"R","E","D","_","L","E","D">>
KW_YELLOW_LED   == <<"Y","E","L","L","O","W","_","L","E","D">>
KW_GREEN_LED    == <<"G","R","E","E","N","_","L","E","D">>
KW_SERVO        == <<"S","E","R","V","O">>
KW_TEMP_AND_HUM == <<"T","E","M","P","_","A","N","D","_","H","U","M">>
KW_SELF_TEST    == <<"S","E","L","F","_","T","E","S","T">>

VERB_MAP ==
  (KW_ID :> "VERB_ID") @@ (KW_GET :> "VERB_GET") @@ (KW_SET :> "VERB_SET")

NOUN_MAP ==
  (KW_RED_LED :> "NOUN_RED_LED") @@ (KW_YELLOW_LED :> "NOUN_YELLOW_LED") @@
  (KW_GREEN_LED :> "NOUN_GREEN_LED") @@ (KW_SERVO :> "NOUN_SERVO") @@
  (KW_TEMP_AND_HUM :> "NOUN_TEMP_AND_HUM") @@ (KW_SELF_TEST :> "NOUN_SELF_TEST")

----------------------------------------------------------------------------
(* C library: strtok and strtol *)

\* strspn: the number of leading bytes of s that are in delims
DelimLen(s, delims) ==
  IF \A i \in 1 .. Len(s) : s[i] \in delims
  THEN Len(s)
  ELSE (CHOOSE i \in 1 .. Len(s) :
          s[i] \notin delims /\ \A j \in 1 .. (i - 1) : s[j] \in delims) - 1

SkipDelims(s, delims) == SubSeq(s, DelimLen(s, delims) + 1, Len(s))

\* strcspn: the number of leading bytes of s that are not in delims
TokLen(s, delims) ==
  IF \A i \in 1 .. Len(s) : s[i] \notin delims
  THEN Len(s)
  ELSE (CHOOSE i \in 1 .. Len(s) :
          s[i] \in delims /\ \A j \in 1 .. (i - 1) : s[j] \notin delims) - 1

\* strtok on the text s that is left of the string: the token (NULL when
\* only delimiters are left) and the text left after the token and the one
\* delimiter that ended it
strtok_at(t, delims) ==
  IF t = <<>>
  THEN [tok |-> NULL, rest |-> <<>>]
  ELSE [tok  |-> SubSeq(t, 1, TokLen(t, delims)),
        rest |-> SubSeq(t, TokLen(t, delims) + 2, Len(t))]

\* (the sets of one element make s and the text after the leading
\* delimiters values computed once)
strtok(s, delims) ==
  CHOOSE r \in { strtok_at(t, delims) :
                   t \in { SkipDelims(u, delims) : u \in {s} } } : TRUE

DigitVal ==
  ("0" :> 0) @@ ("1" :> 1) @@ ("2" :> 2) @@ ("3" :> 3) @@ ("4" :> 4) @@
  ("5" :> 5) @@ ("6" :> 6) @@ ("7" :> 7) @@ ("8" :> 8) @@ ("9" :> 9)

IsSpace(c) == c \in {" ", "\t", "\n", "\r", "\f"}

RECURSIVE SkipSpace(_)
SkipSpace(s) == IF s # <<>> /\ IsSpace(Head(s)) THEN SkipSpace(Tail(s)) ELSE s

\* the magnitude of the digits at the head of s, accumulated into acc; over
\* records that it exceeds LONG_MAX
RECURSIVE Accumulate(_, _, _)
Accumulate(s, acc, over) ==
  IF s = <<>> \/ Head(s) \notin DOMAIN DigitVal
  THEN [m |-> acc, over |-> over]
  ELSE LET d == DigitVal[Head(s)]
       IN IF over \/ acc > (LONG_MAX - d) \div 10
          THEN Accumulate(Tail(s), LONG_MAX, TRUE)
          ELSE Accumulate(Tail(s), acc * 10 + d, FALSE)

\* strtol(s, &end, 10): the value (saturated to the range of long), and
\* whether end was moved past s
strtol_at(t) ==
  LET neg == t # <<>> /\ Head(t) = "-"
      u   == IF t # <<>> /\ Head(t) \in {"-", "+"} THEN Tail(t) ELSE t
      any == u # <<>> /\ Head(u) \in DOMAIN DigitVal
      a   == Accumulate(u, 0, FALSE)
  IN IF ~any
     THEN [val |-> 0, moved |-> FALSE]
     ELSE [val |-> IF neg THEN (IF a.over THEN LONG_MIN ELSE -a.m) ELSE a.m,
           moved |-> TRUE]

strtol(s) ==
  CHOOSE r \in { strtol_at(t) : t \in { SkipSpace(u) : u \in {s} } } : TRUE

----------------------------------------------------------------------------
(* RequestParser *)

RequestParser ==
  [buffer_ |-> <<>>, bufferp_ |-> 0, pending_request_ |-> FALSE]

pending(p) == p.pending_request_

\* available() without its look at the pending flag
available_while_pending(p) == p.bufferp_ < MAX_LEN - 1

available(p) == ~pending(p) /\ p.bufferp_ < MAX_LEN - 1

\* push() completing the line one byte later than the capacity allows
push_late(p, c) ==
  IF available(p)
  THEN LET b  == Append(SubSeq(p.buffer_, 1, p.bufferp_), c)
           bp == p.bufferp_ + 1
       IN IF c = "\n" \/ bp = MAX_LEN
          THEN [buffer_ |-> b, bufferp_ |-> 0, pending_request_ |-> TRUE]
          ELSE [buffer_ |-> b, bufferp_ |-> bp, pending_request_ |-> FALSE]
  ELSE p

\* buffer_ holds the bytes below the cursor, or, once a line is complete,
\* the bytes below the terminator
push(p, c) ==
  IF available(p)
  THEN LET b  == Append(SubSeq(p.buffer_, 1, p.bufferp_), c)
           bp == p.bufferp_ + 1
       IN IF c = "\n" \/ bp = MAX_LEN - 1
          THEN [buffer_ |-> b, bufferp_ |-> 0, pending_request_ |-> TRUE]
          ELSE [buffer_ |-> b, bufferp_ |-> bp, pending_request_ |-> FALSE]
  ELSE p

\* the indices of buffer_ that push(c) writes: the byte at the cursor and,
\* when the line is complete, the terminator after it
push_indices(p, c) ==
  IF available(p)
  THEN IF c = "\n" \/ p.bufferp_ + 1 = MAX_LEN - 1
       THEN {p.bufferp_, p.bufferp_ + 1}
       ELSE {p.bufferp_}
  ELSE {}

\* Serial.print(char *)
RECURSIVE PrintChars(_)
PrintChars(s) == IF s = <<>> THEN "" ELSE Head(s) \o PrintChars(Tail(s))

\* the debug line parse_into prints for a noun it does not know
NounDebugLine(tok) == <<"Failed to find noun [", PrintChars(tok), "]">>

\* parse_into without its look at what follows the value token
remaining_tokens_ignored(rest) == FALSE

\* the last strtok of parse_into: whether anything but line ends follows the
\* value token
remaining_tokens(rest) == strtok(rest, {"\r", "\n"}).tok # NULL

\* parse_into on a parser with a pending line: the request afterwards and
\* the lines printed to Serial
parse_line(buf, r) ==
  LET v == strtok(buf, {" ", "\n"})
      n == strtok(v.rest, {" ", "\r", "\n"})
      x == strtok(n.rest, {" ", "\r", "\n"})
      i == strtol(x.tok)
  IN IF v.tok = NULL
     THEN [request |-> [r EXCEPT !.verb = "VERB_EMPTY"], out |-> <<>>]
     ELSE IF v.tok \notin DOMAIN VERB_MAP
     THEN [request |-> [r EXCEPT !.verb = "VERB_INVALID"], out |-> <<>>]
     ELSE IF n.tok = NULL
     THEN [request |-> [r EXCEPT !.verb = VERB_MAP[v.tok],
                                 !.noun = "NOUN_EMPTY"],
           out |-> <<>>]
     ELSE IF n.tok \notin DOMAIN NOUN_MAP
     THEN [request |-> [r EXCEPT !.verb = VERB_MAP[v.tok],
                                 !.noun = "NOUN_INVALID"],
           out |-> <<NounDebugLine(n.tok)>>]
     ELSE IF x.tok = NULL
     THEN [request |-> [r EXCEPT !.verb = VERB_MAP[v.tok],
                                 !.noun = NOUN_MAP[n.tok],
                                 !.value = "VALUE_EMPTY"],
           out |-> <<>>]
     ELSE IF ~i.moved
     THEN [request |-> [r EXCEPT !.verb = VERB_MAP[v.tok],
                                 !.noun = NOUN_MAP[n.tok],
                                 !.value_int = i.val,
                                 !.value = "VALUE_INVALID"],
           out |-> <<>>]
     ELSE IF remaining_tokens(x.rest)
     THEN [request |-> [r EXCEPT !.verb = VERB_MAP[v.tok],
                                 !.noun = NOUN_MAP[n.tok],
                                 !.value_int = i.val,
                                 !.value = "VALUE_EMPTY"],
           out |-> <<>>]
     ELSE [request |-> [r EXCEPT !.verb = VERB_MAP[v.tok],
                                 !.noun = NOUN_MAP[n.tok],
                                 !.value_int = i.val,
                                 !.value = "VALUE_OK"],
           out |-> <<>>]

\* RequestParser::parse_into.  The bytes of the consumed line stay in the
\* array, but none is read again before push overwrites it, so the model
\* drops them
parse_into(p, r) ==
  IF ~pending(p)
  THEN [ret |-> FALSE, parser |-> p, request |-> r, out |-> <<>>]
  ELSE LET q == parse_line(p.buffer_, r)
       IN [ret |-> TRUE,
           parser |-> [p EXCEPT !.pending_request_ = FALSE,
                                !.buffer_ = <<>>],
           request |-> q.request, out |-> q.out]

----------------------------------------------------------------------------------------------------------------------------------------
(* Serial output: a line is the sequence of the texts printed up to its    *)
(* println, one text for each call of print or println                      *)

\* Serial.print(int)
PrintInt(n) == ToString(n)

\* Serial.print(float): two decimals; h is the reading in hundredths
PrintFloat(h) ==
  ToString(h \div 100) \o "." \o
  (IF h % 100 < 10 THEN "0" ELSE "") \o ToString(h % 100)

ERR(code) == << "ERR " \o code >>

SelfTestReply(st) ==
  << "OK ", IF is_active(st) THEN "ACTIVE" ELSE "INACTIVE", " ",
     PrintInt(progress(st)) >>

\* what handle_request leaves behind: the state, the tester, the lines
\* printed, and the number of calls of State::write
Reply(s, st, line, writes) ==
  [state |-> s, tester |-> st, out |-> <<line>>, writes |-> writes]

handle_GET(r, s, st) ==
  IF r.value # "VALUE_EMPTY" THEN Reply(s, st, ERR("BAD_VALUE"), 0)
  ELSE CASE r.noun = "NOUN_RED_LED"    -> Reply(s, st, <<"OK ", PrintInt(s.red)>>, 0)
         [] r.noun = "NOUN_YELLOW_LED" -> Reply(s, st, <<"OK ", PrintInt(s.yellow)>>, 0)
         [] r.noun = "NOUN_GREEN_LED"  -> Reply(s, st, <<"OK ", PrintInt(s.green)>>, 0)
         [] r.noun = "NOUN_SERVO"      -> Reply(s, st, <<"OK ", PrintInt(s.servo)>>, 0)
         [] r.noun = "NOUN_TEMP_AND_HUM" ->
              Reply(s, st, <<"OK ", s.sensor.status, " ",
                             PrintFloat(s.sensor.temperature), " ",
                             PrintFloat(s.sensor.humidity)>>, 0)
         [] r.noun = "NOUN_SELF_TEST"  -> Reply(s, st, SelfTestReply(st), 0)
         [] OTHER                      -> Reply(s, st, ERR("BAD_NOUN"), 0)

handle_SET(r, s, st, t) ==
  IF r.value # "VALUE_OK" THEN Reply(s, st, ERR("BAD_VALUE"), 0)
  ELSE CASE r.noun = "NOUN_RED_LED" ->
              LET v == LedValue(r.value_int)
              IN Reply([s EXCEPT !.red = v], st, <<"OK ", PrintInt(v)>>, 1)
         [] r.noun = "NOUN_YELLOW_LED" ->
              LET v == LedValue(r.value_int)
              IN Reply([s EXCEPT !.yellow = v], st, <<"OK ", PrintInt(v)>>, 1)
         [] r.noun = "NOUN_GREEN_LED" ->
              LET v == LedValue(r.value_int)
              IN Reply([s EXCEPT !.green = v], st, <<"OK ", PrintInt(v)>>, 1)
         [] r.noun = "NOUN_SERVO" ->
              LET v == ServoValue(r.value_int)
              IN Reply([s EXCEPT !.servo = v], st, <<"OK ", PrintInt(v)>>, 1)
         [] r.noun = "NOUN_SELF_TEST" ->
              IF r.value_int < 0 \/ r.value_int > 1
              THEN Reply(s, st, ERR("BAD_VALUE"), 0)
              ELSE LET st2 == IF r.value_int # 0 THEN start(st, t) ELSE stop(st)
                   IN Reply(s, st2, SelfTestReply(st2), 0)
         [] OTHER -> Reply(s, st, ERR("BAD_NOUN"), 0)

handle_request(r, s, st, t) ==
  IF r.status = "STATUS_BAD_SYNTAX" THEN Reply(s, st, ERR("BAD_SYNTAX"), 0)
  ELSE IF r.verb \in {"VERB_EMPTY", "VERB_INVALID"}
  THEN Reply(s, st, ERR("BAD_VERB"), 0)
  ELSE CASE r.verb = "VERB_ID" ->
              IF r.noun # "NOUN_EMPTY"
              THEN Reply(s, st, ERR("BAD_NOUN"), 0)
              ELSE Reply(s, st, <<"OK ", ARDUINO_BOARD>>, 0)
         [] r.verb = "VERB_GET" -> handle_GET(r, s, st)
         [] r.verb = "VERB_SET" -> handle_SET(r, s, st, t)
         [] OTHER -> Reply(s, st, ERR("BAD_VERB"), 0)

----------------------------------------------------------------------------
(* The host: the request lines it may send *)

SP == <<" ">>
LF == <<"\n">>
CR == <<"\r">>

W_FOO == <<"F","O","O">>
W_2000 == <<"2","0","0","0">>
W_M100 == <<"-","1","0","0">>
W_200 == <<"2","0","0">>
W_90 == <<"9","0">>
W_12abc == <<"1","2","a","b","c">>
W_abc == <<"a","b","c">>

Line1(a) == a \o LF
Line2(a, b) == a \o SP \o b \o LF
Line3(a, b, c) == a \o SP \o b \o SP \o c \o LF
Line4(a, b, c, d) == a \o SP \o b \o SP \o c \o SP \o d \o LF

Lines ==
  { LF,
    Line1(W_FOO),
    Line1(KW_ID),
    Line2(KW_ID, W_FOO),
    Line1(KW_GET),
    Line2(KW_GET, W_FOO),
    Line2(KW_GET, KW_RED_LED),
    Line2(KW_GET, KW_RED_LED \o CR),
    Line2(KW_GET, KW_SERVO),
    Line2(KW_GET, KW_SELF_TEST),
    Line2(KW_GET, KW_TEMP_AND_HUM),
    Line3(KW_GET, KW_RED_LED, <<"5">>),
    Line4(KW_GET, KW_RED_LED, <<"5">>, <<"6">>),
    Line2(KW_SET, KW_RED_LED),
    Line3(KW_SET, W_FOO, <<"5">>),
    Line3(KW_SET, KW_RED_LED, W_2000),
    Line3(KW_SET, KW_RED_LED, W_M100),
    Line3(KW_SET, KW_RED_LED, <<"7">>),
    Line3(KW_SET, KW_RED_LED, W_12abc),
    Line3(KW_SET, KW_RED_LED, W_abc),
    Line4(KW_SET, KW_RED_LED, <<"5">>, <<"x">>),
    Line3(KW_SET, KW_YELLOW_LED, <<"7">>),
    Line3(KW_SET, KW_GREEN_LED, W_2000),
    Line3(KW_SET, KW_SERVO, W_90),
    Line3(KW_SET, KW_SERVO, W_200),
    Line3(KW_SET, KW_TEMP_AND_HUM, <<"1">>),
    Line3(KW_SET, KW_SELF_TEST, <<"0">>),
    Line3(KW_SET, KW_SELF_TEST, <<"1">>),
    Line3(KW_SET, KW_SELF_TEST, <<"2">>) }

\* the time one pass of loop() takes before its delay, in ms
Elapsed == {600}

\* the lines and the pass times of the runs that follow a whole self test
SelfTestLines ==
  { Line2(KW_GET, KW_SELF_TEST),
    Line2(KW_GET, KW_RED_LED),
    Line3(KW_SET, KW_SELF_TEST, <<"0">>),
    Line3(KW_SET, KW_SELF_TEST, <<"1">>) }

SelfTestElapsed == {300, 600}

----------------------------------------------------------------------------
(* The system *)

NoPins == [red |-> -1, yellow |-> -1, green |-> -1, servo |-> -1]

\* what the last pass of loop() did: whether it dispatched a request and for
\* which line, whether the sequencer took a step, and the state and tester
\* the dispatcher was given
NoTick ==
  [dispatched |-> FALSE, line |-> NULL, stepped |-> FALSE,
   pre_state |-> TestBoxState, pre_tester |-> SelfTester, writes |-> 0]

\* no member function of the parser has been called directly yet
NoCall ==
  [op |-> "none", byte |-> "", before |-> RequestParser, writes |-> {},
   ret |-> FALSE, completed |-> NULL]

Init ==
  /\ state = TestBoxState
  /\ self_tester = SelfTester
  /\ parser = RequestParser
  /\ request = Request
  /\ now = 0
  /\ rx = <<>>
  /\ wire = <<>>
  /\ pins = NoPins
  /\ out = <<>>
  /\ booted = FALSE
  /\ tick = NoTick
  /\ hist = [red_set |-> FALSE, last_target |-> 0]
  /\ call = NoCall

setup ==
  /\ ~booted
  /\ booted' = TRUE
  /\ self_tester' = start(self_tester, now)
  /\ UNCHANGED <<state, parser, request, now, rx, wire, pins, out, tick, hist,
                 call>>

\* the host sends a line once the UART holds nothing of an earlier one; the
\* first k bytes of the line reach the UART at once
HostSend(line, k) ==
  /\ rx = <<>> /\ wire = <<>>
  /\ rx' = SubSeq(line, 1, k)
  /\ wire' = SubSeq(line, k + 1, Len(line))
  /\ UNCHANGED <<state, self_tester, parser, request, now, pins, out, booted,
                 tick, hist, call>>

\* the rest of the line reaches the UART
Arrive ==
  /\ wire # <<>>
  /\ rx' = rx \o wire
  /\ wire' = <<>>
  /\ UNCHANGED <<state, self_tester, parser, request, now, pins, out, booted,
                 tick, hist, call>>

\* while (Serial.available() && parser.available()) parser.push(Serial.read())
RECURSIVE Drain(_, _)
Drain(p, q) ==
  IF q # <<>> /\ available(p)
  THEN CHOOSE r \in { Drain(pushed, Tail(q)) :
                        pushed \in {push(p, Head(q))} } : TRUE
  ELSE [parser |-> p, rx |-> q]

\* a pass of loop() that parses and dispatches before it steps the self test
loop_dispatch_first(elapsed, dht, horizon) ==
  /\ booted
  /\ now + (IF elapsed < refresh_delay THEN refresh_delay ELSE elapsed) <= horizon
  /\ \E s2 \in {read(state, now, dht)} :
     \E d \in {Drain(parser, rx)} :
     \E p \in {parse_into(d.parser, request)} :
     \E h \in {IF p.ret
               THEN handle_request(p.request, s2, self_tester, now)
               ELSE [state |-> s2, tester |-> self_tester, out |-> <<>>,
                     writes |-> 0]} :
     \E s1 \in {step(h.tester, h.state, now)} :
       /\ state' = s1.state
       /\ self_tester' = s1.tester
       /\ parser' = p.parser
       /\ request' = p.request
       /\ rx' = d.rx
       /\ pins' = IF s1.ret THEN write(s1.state)
                  ELSE IF h.writes > 0 THEN write(h.state) ELSE pins
       /\ out' = p.out \o h.out
       /\ now' = now + (IF elapsed < refresh_delay THEN refresh_delay ELSE elapsed)
       /\ tick' = [dispatched |-> p.ret,
                   line       |-> IF p.ret THEN d.parser.buffer_ ELSE NULL,
                   stepped    |-> s1.ret,
                   pre_state  |-> s2,
                   pre_tester |-> s1.tester,
                   writes     |-> h.writes]
       /\ hist' = [hist EXCEPT
                     !.red_set = @ \/ (p.ret /\ p.request.verb = "VERB_SET"
                                             /\ p.request.noun = "NOUN_RED_LED"),
                     !.last_target = IF s1.ret THEN s1.tester.step_ ELSE @]
       /\ UNCHANGED <<wire, booted, call>>

\* one pass of loop(): the work takes elapsed ms, and the pass is allowed
\* only while millis() stays below horizon
loop(elapsed, dht, horizon) ==
  /\ booted
  /\ now + (IF elapsed < refresh_delay THEN refresh_delay ELSE elapsed) <= horizon
  /\ \E s1 \in {step(self_tester, state, now)} :
     \E s2 \in {read(s1.state, now, dht)} :
     \E d \in {Drain(parser, rx)} :
     \E p \in {parse_into(d.parser, request)} :
     \E h \in {IF p.ret
               THEN handle_request(p.request, s2, s1.tester, now)
               ELSE [state |-> s2, tester |-> s1.tester, out |-> <<>>,
                     writes |-> 0]} :
       /\ state' = h.state
       /\ self_tester' = h.tester
       /\ parser' = p.parser
       /\ request' = p.request
       /\ rx' = d.rx
       /\ pins' = IF h.writes > 0 THEN write(h.state)
                  ELSE IF s1.ret THEN write(s1.state) ELSE pins
       /\ out' = p.out \o h.out
       /\ now' = now + (IF elapsed < refresh_delay THEN refresh_delay ELSE elapsed)
       /\ tick' = [dispatched |-> p.ret,
                   line       |-> IF p.ret THEN d.parser.buffer_ ELSE NULL,
                   stepped    |-> s1.ret,
                   pre_state  |-> s2,
                   pre_tester |-> s1.tester,
                   writes     |-> h.writes]
       /\ hist' = [hist EXCEPT
                     !.red_set = @ \/ (p.ret /\ p.request.verb = "VERB_SET"
                                             /\ p.request.noun = "NOUN_RED_LED"),
                     !.last_target = IF s1.ret THEN s1.tester.step_ ELSE @]
       /\ UNCHANGED <<wire, booted, call>>

\* the reports the DHT driver can make in a pass that starts at time t: the
\* driver is asked only when the sampling period has passed
DhtInputs(s, t) ==
  IF sampling_due(s, t)
  THEN DhtReports
  ELSE {[status |-> "OK", temperature |-> 0, humidity |-> 0]}

Next ==
  \/ setup
  \/ \E line \in Lines : \E k \in {CutAt, Len(line)} :
       k <= Len(line) /\ HostSend(line, k)
  \/ Arrive
  \/ \E elapsed \in Elapsed : \E dht \in DhtInputs(state, now) :
       loop(elapsed, dht, MaxTime)

Spec == Init /\ [][Next]_vars

NextSelfTest ==
  \/ setup
  \/ \E line \in SelfTestLines : \E k \in {CutAt, Len(line)} :
       k <= Len(line) /\ HostSend(line, k)
  \/ Arrive
  \/ \E elapsed \in SelfTestElapsed : \E dht \in DhtInputs(state, now) :
       loop(elapsed, dht, MaxRunTime)

SpecSelfTest == Init /\ [][NextSelfTest]_vars

\* the host sends two lines back to back, and both are in the UART before
\* the next pass
HostSendTwo(first, second) ==
  /\ rx = <<>> /\ wire = <<>>
  /\ rx' = first \o second
  /\ UNCHANGED <<state, self_tester, parser, request, now, wire, pins, out,
                 booted, tick, hist, call>>

NextBurst ==
  \/ setup
  \/ \E first \in SelfTestLines : \E second \in SelfTestLines :
       HostSendTwo(first, second)
  \/ \E elapsed \in SelfTestElapsed : \E dht \in DhtInputs(state, now) :
       loop(elapsed, dht, MaxTime)

SpecBurst == Init /\ [][NextBurst]_vars

\* the host asks for the sensor readings, over a time in which the sampling
\* period passes twice
SensorLines == { Line2(KW_GET, KW_TEMP_AND_HUM) }

SensorElapsed == {600, 1000}

NextSensor ==
  \/ setup
  \/ \E line \in SensorLines : \E k \in {CutAt, Len(line)} :
       k <= Len(line) /\ HostSend(line, k)
  \/ Arrive
  \/ \E elapsed \in SensorElapsed : \E dht \in DhtInputs(state, now) :
       loop(elapsed, dht, MaxSensorTime)

SpecSensor == Init /\ [][NextSensor]_vars

\* The self test run to its end: the host starts and stops it at will for a
\* while, and loop() is called again and again for long enough after that
\* for a run started last to finish
LiveLines ==
  { Line3(KW_SET, KW_SELF_TEST, <<"0">>),
    Line3(KW_SET, KW_SELF_TEST, <<"1">>) }

HostSendEarly(line) ==
  /\ now <= MaxSendTime
  /\ HostSend(line, Len(line))

LoopLive ==
  \E elapsed \in SelfTestElapsed : \E dht \in DhtInputs(state, now) :
    loop(elapsed, dht, MaxLiveTime)

NextLive ==
  \/ setup
  \/ \E line \in LiveLines : HostSendEarly(line)
  \/ LoopLive

\* the Arduino core calls setup() once and then loop() for ever
SpecLive ==
  /\ Init
  /\ [][NextLive]_vars
  /\ WF_vars(setup)
  /\ WF_vars(LoopLive)

\* The parser on its own: push() and parse_into() called in any order, with
\* any byte, whether or not available() holds
Bytes == {"A", "\n"}

PushByte(c) ==
  /\ parser' = push(parser, c)
  /\ call' = [op |-> "push", byte |-> c, before |-> parser,
              writes |-> push_indices(parser, c), ret |-> FALSE,
              completed |-> IF ~pending(parser) /\ pending(push(parser, c))
                            THEN push(parser, c).buffer_ ELSE call.completed]
  /\ UNCHANGED <<state, self_tester, request, now, rx, wire, pins, out,
                 booted, tick, hist>>

ParseInto ==
  /\ \E p \in {parse_into(parser, request)} :
       /\ parser' = p.parser
       /\ request' = p.request
       /\ out' = p.out
       /\ call' = [op |-> "parse_into", byte |-> "", before |-> parser,
                   writes |-> {}, ret |-> p.ret, completed |-> call.completed]
  /\ UNCHANGED <<state, self_tester, now, rx, wire, pins, booted, tick, hist>>

NextParser ==
  \/ \E c \in Bytes : PushByte(c)
  \/ ParseInto

SpecParser == Init /\ [][NextParser]_vars

----------------------------------------------------------------------------
(* Reading a request line as the protocol describes it: words separated by *)
(* white space, and the integer a numeral stands for                       *)

WhiteSpace == {" ", "\t", "\r", "\n"}

RECURSIVE Words(_)
Words(s) ==
  LET t == SkipDelims(s, WhiteSpace)
      n == TokLen(t, WhiteSpace)
  IN IF t = <<>> THEN <<>>
     ELSE <<SubSeq(t, 1, n)>> \o Words(SubSeq(t, n + 1, Len(t)))

Numeral ==
  (<<"0">> :> 0) @@ (<<"1">> :> 1) @@ (<<"2">> :> 2) @@ (<<"5">> :> 5) @@
  (<<"6">> :> 6) @@ (<<"7">> :> 7) @@ (W_90 :> 90) @@ (W_200 :> 200) @@
  (W_2000 :> 2000) @@ (W_M100 :> (-100))

ActuatorNouns == {KW_RED_LED, KW_YELLOW_LED, KW_GREEN_LED, KW_SERVO}

Nouns == ActuatorNouns \cup {KW_TEMP_AND_HUM, KW_SELF_TEST}

FieldOf ==
  (KW_RED_LED :> "red") @@ (KW_YELLOW_LED :> "yellow") @@
  (KW_GREEN_LED :> "green") @@ (KW_SERVO :> "servo")

RangeClamp(noun, x) ==
  IF noun = KW_SERVO
  THEN (IF x < 0 THEN 0 ELSE IF x > 180 THEN 180 ELSE x)
  ELSE (IF x < 0 THEN 0 ELSE IF x > 1023 THEN 1023 ELSE x)

Actuators(s) ==
  [red |-> s.red, yellow |-> s.yellow, green |-> s.green, servo |-> s.servo]

\* the words of the line the last pass dispatched (none when it dispatched
\* nothing)
Dispatched == IF tick.dispatched THEN Words(tick.line) ELSE <<>>

\* the response of the last pass: the last line it printed
Response == IF out = <<>> THEN <<>> ELSE out[Len(out)]

----------------------------------------------------------------------------
(* Claims *)

\* C1: a dispatched line `SET <actuator noun> x` sets that actuator to x
\* clamped to the noun's range, writes the state to the driver, and is
\* answered `OK <clamped x>` (x itself when x is in range).
C1_SetClampsAndReplies ==
  \A noun \in ActuatorNouns : \A w \in DOMAIN Numeral :
    (tick.dispatched /\ tick.line = Line3(KW_SET, noun, w)) =>
      /\ out = << <<"OK ", ToString(RangeClamp(noun, Numeral[w]))>> >>
      /\ state[FieldOf[noun]] = RangeClamp(noun, Numeral[w])
      /\ tick.writes = 1
      /\ pins = Actuators(state)

C1_Witness ==
  /\ tick.dispatched
  /\ tick.line = Line3(KW_SET, KW_RED_LED, W_2000)
  /\ out = << <<"OK ", "1023">> >>
  /\ state.red = 1023
  /\ pins.red = 1023

\* C2 as amended: with no `SET RED_LED` request dispatched since boot,
\* `GET RED_LED` is answered with the red target of the self-test step
\* executed last (0, 1023, 0, 0, 0 for the five steps), which is `OK 0`
\* only while that target is 0.
RedOfStep == <<"0", "1023", "0", "0", "0">>

C2_GetRedFollowsSelfTest ==
  (tick.dispatched /\ Dispatched = <<KW_GET, KW_RED_LED>> /\ ~hist.red_set) =>
    /\ hist.last_target \in DOMAIN RedOfStep
    /\ out = << <<"OK ", RedOfStep[hist.last_target]>> >>

C2_Witness ==
  /\ tick.dispatched
  /\ Dispatched = <<KW_GET, KW_RED_LED>>
  /\ ~hist.red_set
  /\ hist.last_target = 2
  /\ out = << <<"OK ", "1023">> >>

\* C2 as stated: with no `SET RED_LED` request dispatched since boot,
\* `GET RED_LED` is answered `OK 0`.
C2_Original ==
  (tick.dispatched /\ Dispatched = <<KW_GET, KW_RED_LED>> /\ ~hist.red_set) =>
    out = << <<"OK ", "0">> >>

\* C3 as amended: `SET SELF_TEST 1` is answered `OK ACTIVE p`, where p is 0
\* when the sequencer was inactive at dispatch and floor(100*step_index/n)
\* when it was already active, in which case it is left as it was.
C3_StartReply ==
  (tick.dispatched /\ tick.line = Line3(KW_SET, KW_SELF_TEST, <<"1">>)) =>
    IF tick.pre_tester.active_
    THEN /\ out = << <<"OK ", "ACTIVE", " ",
                      ToString((100 * tick.pre_tester.step_) \div Len(targets_))>> >>
         /\ self_tester = tick.pre_tester
    ELSE /\ out = << <<"OK ", "ACTIVE", " ", "0">> >>
         /\ self_tester.active_ /\ self_tester.step_ = 0

C3_Witness ==
  /\ tick.dispatched
  /\ tick.line = Line3(KW_SET, KW_SELF_TEST, <<"1">>)
  /\ tick.pre_tester.active_
  /\ tick.pre_tester.step_ = 2
  /\ out = << <<"OK ", "ACTIVE", " ", "40">> >>

\* C3 as stated: every `SET SELF_TEST 1` is answered `OK ACTIVE 0`.
C3_Original ==
  (tick.dispatched /\ tick.line = Line3(KW_SET, KW_SELF_TEST, <<"1">>)) =>
    out = << <<"OK ", "ACTIVE", " ", "0">> >>

\* C4: a self-test response that reports INACTIVE reports progress 0, and
\* every `SET SELF_TEST 0` is answered `OK INACTIVE 0`, whatever the step
\* the sequencer was stopped at.
C4_InactiveReportsZero ==
  /\ \A i \in DOMAIN out :
       (Len(out[i]) = 4 /\ out[i][2] = "INACTIVE") => out[i][4] = "0"
  /\ (tick.dispatched /\ Dispatched = <<KW_SET, KW_SELF_TEST, <<"0">> >>) =>
       out = << <<"OK ", "INACTIVE", " ", "0">> >>

C4_Witness ==
  /\ tick.dispatched
  /\ Dispatched = <<KW_SET, KW_SELF_TEST, <<"0">> >>
  /\ tick.pre_tester.active_
  /\ tick.pre_tester.step_ = 2
  /\ self_tester.step_ = 2
  /\ out = << <<"OK ", "INACTIVE", " ", "0">> >>

\* C5: in the state the dispatcher of a pass observes, active implies
\* step_index < len(steps), and `OK ACTIVE 100` is never printed.
C5_Original ==
  /\ tick.pre_tester.active_ => tick.pre_tester.step_ < Len(targets_)
  /\ \A i \in DOMAIN out : out[i] # <<"OK ", "ACTIVE", " ", "100">>

\* C6: a dispatched line whose first word is GET or SET and whose second
\* word is none of the six nouns is answered `ERR BAD_NOUN`.
C6_Original ==
  (/\ Len(Dispatched) >= 2
   /\ Dispatched[1] \in {KW_GET, KW_SET}
   /\ Dispatched[2] \notin Nouns) =>
    Response = <<"ERR BAD_NOUN">>

\* C7: a dispatched `SET <actuator noun>` line with no value word, or with
\* an integer followed by a further word, is answered `ERR BAD_VALUE` and
\* changes no actuator value and nothing of the sequencer, with no write to
\* the driver.
C7_BadValueChangesNothing ==
  (/\ Len(Dispatched) >= 2
   /\ Dispatched[1] = KW_SET
   /\ Dispatched[2] \in ActuatorNouns
   /\ \/ Len(Dispatched) = 2
      \/ Len(Dispatched) >= 4 /\ Dispatched[3] \in DOMAIN Numeral) =>
    /\ out = << <<"ERR BAD_VALUE">> >>
    /\ Actuators(state) = Actuators(tick.pre_state)
    /\ self_tester = tick.pre_tester
    /\ tick.writes = 0

C7_Witness ==
  /\ tick.dispatched
  /\ tick.line = Line4(KW_SET, KW_RED_LED, <<"5">>, <<"x">>)
  /\ out = << <<"ERR BAD_VALUE">> >>
  /\ state.red # 5

\* C8: a dispatched GET line with one or more words after a valid noun is
\* answered `ERR BAD_VALUE`.
C8_Original ==
  (/\ Len(Dispatched) >= 3
   /\ Dispatched[1] = KW_GET
   /\ Dispatched[2] \in Nouns) =>
    Response = <<"ERR BAD_VALUE">>

\* C9: the pass that parses and dispatches a line prints exactly one line,
\* of the form `OK <payload>` or `ERR <code>`, and a pass that dispatches
\* nothing prints nothing.
ErrLines ==
  { <<"ERR BAD_SYNTAX">>, <<"ERR BAD_VERB">>, <<"ERR BAD_NOUN">>,
    <<"ERR BAD_VALUE">> }

C9_Original ==
  /\ tick.dispatched =>
       /\ Len(out) = 1
       /\ out[1] \in ErrLines \/ (Len(out[1]) >= 2 /\ out[1][1] = "OK ")
  /\ ~tick.dispatched => out = <<>>

\* C10: at dispatch, every field of the request for which the line has no
\* word holds the value a freshly constructed Request has.
C10_Original ==
  tick.dispatched =>
    /\ Len(Dispatched) < 2 => request.noun = Request.noun
    /\ Len(Dispatched) < 3 => /\ request.value = Request.value
                              /\ request.value_int = Request.value_int


\* C11: while a line is pending, push() of any byte changes nothing of the
\* parser (buffer, cursor, pending flag), so the pending line is still the
\* line as it was completed when parse_into() reads it; one flag, one line:
\* at most one request is in flight
C11_PushWhilePendingIsNoOp ==
  /\ (call.op = "push" /\ pending(call.before)) =>
        /\ parser = call.before
        /\ call.writes = {}
  /\ pending(parser) => parser.buffer_ = call.completed
  /\ (call.op = "parse_into" /\ call.ret) =>
        /\ call.before.buffer_ = call.completed
        /\ ~pending(parser)
  /\ (call.op = "parse_into" /\ ~call.ret) =>
        /\ ~pending(call.before)
        /\ parser = call.before

C11_Witness ==
  /\ call.op = "push"
  /\ pending(call.before)
  /\ call.byte = "A"
  /\ parser.buffer_ = <<"A", "A", "\n">>

\* C12: with capacity N = MAX_LEN every write of push() lands at an index in
\* 0..N-1, the cursor is at most N-2 between calls, and a run of N-1 bytes
\* without a line feed completes the line on its (N-1)-th byte and not
\* before: pending is set and the cursor is back at 0
C12_PushStaysInBuffer ==
  /\ call.writes \subseteq 0 .. (MAX_LEN - 1)
  /\ parser.bufferp_ \in 0 .. (MAX_LEN - 2)
  /\ Len(parser.buffer_) <= MAX_LEN - 1
  /\ (call.op = "push" /\ ~pending(call.before) /\ call.byte # "\n") =>
        IF call.before.bufferp_ = MAX_LEN - 2
        THEN /\ pending(parser)
             /\ parser.bufferp_ = 0
             /\ Len(parser.buffer_) = MAX_LEN - 1
        ELSE /\ ~pending(parser)
             /\ parser.bufferp_ = call.before.bufferp_ + 1

C12_Witness ==
  /\ call.op = "push"
  /\ call.byte = "A"
  /\ call.before.bufferp_ = MAX_LEN - 2
  /\ ~pending(call.before)
  /\ pending(parser)
  /\ call.writes = {MAX_LEN - 2, MAX_LEN - 1}
  /\ "\n" \notin {parser.buffer_[i] : i \in 1 .. Len(parser.buffer_)}

\* C13: start() on an active sequencer changes nothing of it (active,
\* step_index and next deadline stay, whatever the time of the call), stop()
\* on an inactive sequencer changes nothing, and stop() on an active one
\* only clears active: step_index and the deadline stay as they were
C13_StartStopIdempotent ==
  /\ (/\ tick.dispatched
      /\ tick.line = Line3(KW_SET, KW_SELF_TEST, <<"1">>)
      /\ tick.pre_tester.active_) =>
       /\ self_tester.active_
       /\ self_tester.step_ = tick.pre_tester.step_
       /\ self_tester.next_step_timestamp_ =
            tick.pre_tester.next_step_timestamp_
  /\ (tick.dispatched /\ tick.line = Line3(KW_SET, KW_SELF_TEST, <<"0">>)) =>
       /\ ~self_tester.active_
       /\ self_tester.step_ = tick.pre_tester.step_
       /\ self_tester.next_step_timestamp_ =
            tick.pre_tester.next_step_timestamp_

C13_Witness ==
  /\ tick.dispatched
  /\ tick.line = Line3(KW_SET, KW_SELF_TEST, <<"0">>)
  /\ ~tick.pre_tester.active_
  /\ tick.pre_tester.step_ = 3
  /\ self_tester = tick.pre_tester

\* C14: over a pass of loop() through which the sequencer stays active
\* (active before the pass, after its step() and after its dispatch),
\* progress() does not decrease, whatever request the pass dispatches,
\* `SET SELF_TEST 1` included; progress() of an active sequencer comes down
\* only by a start() called on an inactive sequencer, which a dispatched
\* `SET SELF_TEST 1` does
C14_ActiveStep ==
  /\ now' # now
  /\ self_tester.active_
  /\ self_tester'.active_

C14_ProgressMonotone ==
  [][C14_ActiveStep =>
       IF tick'.pre_tester.active_
       THEN /\ progress(self_tester) <= progress(tick'.pre_tester)
            /\ progress(tick'.pre_tester) <= progress(self_tester')
       ELSE /\ tick'.dispatched
            /\ tick'.line = Line3(KW_SET, KW_SELF_TEST, <<"1">>)
            /\ progress(self_tester') = 0]_vars

C14_Witness ==
  /\ tick.dispatched
  /\ tick.line = Line3(KW_SET, KW_SELF_TEST, <<"1">>)
  /\ tick.stepped
  /\ tick.pre_tester.active_
  /\ self_tester.active_
  /\ progress(self_tester) = 60

\* C15: a pass whose step() executes a due step leaves the deadline at the
\* old deadline plus the wait of the step executed, however late the pass
\* came
C15_Original ==
  [][(now' # now /\ tick'.stepped) =>
       tick'.pre_tester.next_step_timestamp_ =
         self_tester.next_step_timestamp_
           + targets_[self_tester.step_ + 1].wait_ms]_vars

\* C16: a pass of loop() steps the sequencer at most once and does so before
\* it dispatches; it dispatches at most one line, the first one waiting,
\* and leaves what follows that line in the UART; so `GET SELF_TEST` and
\* `GET RED_LED` dispatched in a pass report the step_index and the red
\* value that the step of the same pass produced
C16_IndexAfterStep == IF tick'.stepped THEN self_tester.step_ + 1
                                       ELSE self_tester.step_

C16_StepThenDispatch ==
  [][now' # now =>
       /\ tick'.pre_tester.step_ = C16_IndexAfterStep
       /\ tick'.stepped =>
            Actuators(tick'.pre_state) =
              [red    |-> LedValue(targets_[self_tester.step_ + 1].red),
               yellow |-> LedValue(targets_[self_tester.step_ + 1].yellow),
               green  |-> LedValue(targets_[self_tester.step_ + 1].green),
               servo  |-> ServoValue(targets_[self_tester.step_ + 1].servo)]
       /\ ~tick'.stepped => Actuators(tick'.pre_state) = Actuators(state)
       /\ IF tick'.dispatched
          THEN /\ SubSeq(parser.buffer_, 1, parser.bufferp_) \o rx
                    = tick'.line \o rx'
               /\ Len(out') = 1
          ELSE out' = <<>>
       /\ (tick'.dispatched /\ tick'.line = Line2(KW_GET, KW_SELF_TEST)) =>
            out' = << <<"OK ",
                        IF tick'.pre_tester.active_ THEN "ACTIVE"
                                                    ELSE "INACTIVE",
                        " ",
                        IF tick'.pre_tester.active_
                        THEN ToString((100 * C16_IndexAfterStep)
                                        \div Len(targets_))
                        ELSE "0">> >>
       /\ (tick'.dispatched /\ tick'.line = Line2(KW_GET, KW_RED_LED)
                            /\ tick'.stepped) =>
            out' = << <<"OK ",
                        ToString(targets_[self_tester.step_ + 1].red)>> >>]_vars

C16_Witness ==
  /\ tick.dispatched
  /\ tick.stepped
  /\ tick.line = Line2(KW_GET, KW_SELF_TEST)
  /\ rx = Line2(KW_GET, KW_RED_LED)
  /\ out = << <<"OK ", "ACTIVE", " ", "40">> >>

\* C17: a dispatched line `SET <actuator noun> w`, where the word w is not
\* in its entirety a signed decimal integer (a word that only starts with
\* digits included), is answered `ERR BAD_VALUE` and changes no actuator
\* value and nothing of the sequencer
IsInteger(w) ==
  LET digits == IF w # <<>> /\ w[1] \in {"+", "-"} THEN Tail(w) ELSE w
  IN /\ digits # <<>>
     /\ \A i \in DOMAIN digits : digits[i] \in DOMAIN DigitVal

C17_Original ==
  (/\ Len(Dispatched) = 3
   /\ Dispatched[1] = KW_SET
   /\ Dispatched[2] \in ActuatorNouns
   /\ ~IsInteger(Dispatched[3])) =>
    /\ out = << <<"ERR BAD_VALUE">> >>
    /\ Actuators(state) = Actuators(tick.pre_state)
    /\ self_tester = tick.pre_tester
    /\ tick.writes = 0

\* C18: whenever the status of the sensor snapshot is that of a failed read,
\* its temperature and humidity are 0, and a `GET TEMP_AND_HUM` dispatched
\* then is answered with that status and 0.00 for both readings; the
\* snapshot changes only in a pass of loop() that starts at least the
\* minimum sampling period after the snapshot's timestamp, and the pass
\* stamps it with its own time
C18_FailedRead == state.sensor.status \notin {"", "OK"}

C18_FailedReadIsZero ==
  /\ C18_FailedRead =>
       /\ state.sensor.temperature = 0
       /\ state.sensor.humidity = 0
  /\ (/\ tick.dispatched
      /\ Dispatched = <<KW_GET, KW_TEMP_AND_HUM>>
      /\ C18_FailedRead) =>
       out = << <<"OK ", state.sensor.status, " ", "0.00", " ", "0.00">> >>

C18_SensorSnapshot ==
  /\ []C18_FailedReadIsZero
  /\ [][state'.sensor # state.sensor =>
          /\ now' # now
          /\ now - state.sensor.timestamp >= DHT_MIN_SAMPLING_PERIOD
          /\ state'.sensor.timestamp = now]_vars

C18_Witness ==
  /\ tick.dispatched
  /\ Dispatched = <<KW_GET, KW_TEMP_AND_HUM>>
  /\ state.sensor.status = "CHECKSUM"
  /\ state.sensor.timestamp > DHT_MIN_SAMPLING_PERIOD
  /\ out = << <<"OK ", "CHECKSUM", " ", "0.00", " ", "0.00">> >>

\* C19: an active sequencer, with loop() called again and again, becomes
\* inactive, and it does so with step_index = len(steps) unless the pass
\* that made it inactive dispatched `SET SELF_TEST 0`; every step it
\* executes is the one after the step executed before, applied to the
\* actuators; and `SET SELF_TEST 1` dispatched while it is active changes
\* neither its step_index nor its deadline
C19_Stopped ==
  /\ ~self_tester.active_
  /\ \/ self_tester.step_ = Len(targets_)
     \/ tick.dispatched /\ tick.line = Line3(KW_SET, KW_SELF_TEST, <<"0">>)

C19_InOrder ==
  (now' # now /\ tick'.stepped) =>
    /\ self_tester.active_
    /\ self_tester.step_ < Len(targets_)
    /\ tick'.pre_tester.step_ = self_tester.step_ + 1
    /\ Actuators(tick'.pre_state) =
         [red    |-> LedValue(targets_[self_tester.step_ + 1].red),
          yellow |-> LedValue(targets_[self_tester.step_ + 1].yellow),
          green  |-> LedValue(targets_[self_tester.step_ + 1].green),
          servo  |-> ServoValue(targets_[self_tester.step_ + 1].servo)]

C19_NoRestart ==
  (/\ now' # now
   /\ tick'.pre_tester.active_
   /\ tick'.dispatched
   /\ tick'.line = Line3(KW_SET, KW_SELF_TEST, <<"1">>)) =>
    self_tester' = tick'.pre_tester

C19_SelfTestFinishes ==
  /\ [](self_tester.active_ => <>C19_Stopped)
  /\ [][self_tester.active_ /\ ~self_tester'.active_ => C19_Stopped']_vars
  /\ [][C19_InOrder]_vars
  /\ [][C19_NoRestart]_vars

C19_Witness ==
  /\ ~self_tester.active_
  /\ self_tester.step_ = Len(targets_)
  /\ hist.last_target = Len(targets_)
  /\ now > MaxSendTime
  /\ ~tick.dispatched

\* C20: after every pass of loop(), from the first one on, the four values
\* written last to the driver are the red, yellow, green and servo values
\* of the state, the lamps within 0..1023 and the servo within 0..180
C20_DriverFollowsState ==
  (booted /\ now > 0) =>
    /\ pins = Actuators(state)
    /\ pins.red \in LED_MIN .. LED_MAX
    /\ pins.yellow \in LED_MIN .. LED_MAX
    /\ pins.green \in LED_MIN .. LED_MAX
    /\ pins.servo \in SERVO_MIN .. SERVO_MAX

C20_Witness ==
  /\ now > 0
  /\ tick.stepped
  /\ tick.dispatched
  /\ tick.line = Line3(KW_SET, KW_SERVO, W_200)
  /\ tick.pre_state.yellow = LED_MAX
  /\ pins.yellow = LED_MAX
  /\ pins.servo = SERVO_MAX

====
